---- MODULE Spec2Model ----
(***************************************************************************)
(* Model of backend/app.py: the Bytezinho chatbot backend.                 *)
(*                                                                         *)
(* Python str values are sequences of one-character strings (template and  *)
(* fixed literals are single tokens).  Optional[...] values are records:   *)
(* None, Str(s), or the ChatSession handle.  Accented characters of the    *)
(* source's literals are written without their accents.                    *)
(***************************************************************************)
EXTENDS Integers, Sequences, FiniteSets, TLC

VARIABLES
    GEMINI_API_KEY,     \* os.getenv("GEMINI_API_KEY") as seen at startup
    genai_ok,           \* whether configure/GenerativeModel/start_chat succeed
    dados_txt,          \* the knowledge file "dados.txt" on disk
    phase,              \* "init" | "serving" | "aborted" (startup hook raised)
    base_conhecimento,  \* module global, line 80
    chat_session,       \* module global, line 81
    writes,             \* how often startup_event assigned each global
    history,            \* prompts submitted through the session, in order
    leads_txt,          \* the lead file "leads.txt" on disk
    ok_lines,           \* text written by the latest run of 200 lead requests
    leads_handled,      \* how many lead requests reached the handler body
    last                \* the exchange the event loop handled last / is in

vars == <<GEMINI_API_KEY, genai_ok, dados_txt, phase, base_conhecimento,
          chat_session, writes, history, leads_txt, ok_lines,
          leads_handled, last>>

env == <<GEMINI_API_KEY, genai_ok, dados_txt>>
globals == <<base_conhecimento, chat_session>>

----------------------------------------------------------------------------
(* Bounds of the exploration *)

MaxChats == 2
MaxLeads == 2

----------------------------------------------------------------------------
(* Python values *)

None == [type |-> "NoneType"]
Str(s) == [type |-> "str", chars |-> s]

\* Python truthiness of an Optional value: None and "" are falsy.
Truthy(v) ==
    /\ v # None
    /\ (v.type = "str" => v.chars # <<>>)

Whitespace == {" ", "\t", "\n", "\r"}

RECURSIVE lstrip(_)
lstrip(s) ==
    IF s # <<>> /\ Head(s) \in Whitespace THEN lstrip(Tail(s)) ELSE s

RECURSIVE rstrip(_)
rstrip(s) ==
    IF s # <<>> /\ s[Len(s)] \in Whitespace
    THEN rstrip(SubSeq(s, 1, Len(s) - 1))
    ELSE s

\* Mutant: only the leading whitespace is removed.
strip_leading_only(s) == lstrip(s)

\* str.strip(): leading and trailing whitespace removed.
strip(s) == rstrip(lstrip(s))

----------------------------------------------------------------------------
(* Constants of the program *)

KNOWLEDGE_BASE_FILE == "dados.txt"
GEMINI_MODEL_NAME == "gemini-1.0-pro"

\* PROMPT_TEMPLATE.format(base_conhecimento=..., pergunta_usuario=...)
PROMPT_TEMPLATE(base, pergunta) ==
    <<"\nUse o conteudo abaixo como base [...]\n\n=== BASE DE CONHECIMENTO ===\n">>
    \o base
    \o <<"\n\n=== PERGUNTA ===\n">>
    \o pergunta
    \o <<"\n\nResponda com base apenas no conteudo da base acima.\n">>

----------------------------------------------------------------------------
(* Startup *)

\* What open(caminho, "r", encoding="utf-8") + f.read() can meet on disk.
KnowledgeFiles ==
    { [kind |-> "missing"], [kind |-> "denied"], [kind |-> "isdir"],
      [kind |-> "undecodable"],
      [kind |-> "text", content |-> <<>>],
      [kind |-> "text", content |-> <<"K">>] }

\* carregar_conhecimento: only FileNotFoundError is caught; any other
\* exception of open()/read() leaves the function.
carregar_conhecimento(file) ==
    CASE file.kind = "text" -> [raised |-> FALSE, value |-> Str(file.content)]
      [] file.kind = "missing" -> [raised |-> FALSE, value |-> None]
      [] file.kind = "denied" -> [raised |-> TRUE, exc |-> "PermissionError"]
      [] file.kind = "isdir" -> [raised |-> TRUE, exc |-> "IsADirectoryError"]
      [] file.kind = "undecodable" -> [raised |-> TRUE, exc |-> "UnicodeDecodeError"]

ApiKeys == { None, Str(<<>>), Str(<<"k">>) }

ChatSession == [type |-> "ChatSession", model |-> GEMINI_MODEL_NAME]

\* iniciar_gemini: None without a key, None when the client raises.
iniciar_gemini(api_key, ok) ==
    IF ~Truthy(api_key) THEN None
    ELSE IF ok THEN ChatSession
    ELSE None

NoExchange == [route |-> "none", done |-> TRUE]

Init ==
    /\ GEMINI_API_KEY \in ApiKeys
    /\ genai_ok \in BOOLEAN
    /\ (genai_ok \/ Truthy(GEMINI_API_KEY))  \* the client is used only with a key
    /\ dados_txt \in KnowledgeFiles
    /\ phase = "init"
    /\ base_conhecimento = None
    /\ chat_session = None
    /\ writes = [base_conhecimento |-> 0, chat_session |-> 0]
    /\ history = <<>>
    /\ leads_txt \in { [exists |-> FALSE, content |-> <<>>],
                       [exists |-> TRUE, content |-> <<"x", "\n">>] }
    /\ ok_lines = <<>>
    /\ leads_handled = 0
    /\ last = NoExchange

\* startup_event: runs once, before the server accepts requests.  An
\* exception leaving it aborts the application startup.
startup_event ==
    /\ phase = "init"
    /\ LET kb == carregar_conhecimento(dados_txt) IN
       IF kb.raised
       THEN /\ phase' = "aborted"
            /\ UNCHANGED <<globals, writes>>
       ELSE /\ base_conhecimento' = kb.value
            /\ chat_session' = iniciar_gemini(GEMINI_API_KEY, genai_ok)
            /\ writes' = [base_conhecimento |-> writes.base_conhecimento + 1,
                          chat_session |-> writes.chat_session + 1]
            /\ phase' = "serving"
    /\ UNCHANGED <<env, history, leads_txt, ok_lines, leads_handled, last>>

\* The single event loop is free to run a handler: the server is up and no
\* handler is inside a synchronous call.
LoopFree == phase = "serving" /\ last.done

----------------------------------------------------------------------------
(* GET / *)

read_root ==
    /\ LoopFree
    /\ last' = [route |-> "/", done |-> TRUE, status |-> 200,
                body |-> [status |-> "API do Chatbot esta funcionando!"]]
    /\ UNCHANGED <<env, phase, globals, writes, history, leads_txt, ok_lines,
                   leads_handled>>

----------------------------------------------------------------------------
(* POST /leads *)

Lower(c) == CASE c = "A" -> "a" [] c = "B" -> "b" [] OTHER -> c

Letters == {"a", "b", "c", "n", "o", "t", "A", "B"}

\* EmailStr: one "@", a non-empty local part, a domain of non-empty
\* dot-separated labels with at least one dot.
IsEmail(e) ==
    /\ Cardinality({i \in 1..Len(e) : e[i] = "@"}) = 1
    /\ LET at == CHOOSE i \in 1..Len(e) : e[i] = "@"
           local == SubSeq(e, 1, at - 1)
           domain == SubSeq(e, at + 1, Len(e))
       IN  /\ local # <<>>
           /\ \A i \in 1..Len(local) : local[i] \in Letters
           /\ domain # <<>>
           /\ \E i \in 1..Len(domain) : domain[i] = "."
           /\ domain[1] # "." /\ domain[Len(domain)] # "."
           /\ \A i \in 1..Len(domain) : domain[i] \in Letters \cup {"."}
           /\ \A i \in 1..(Len(domain) - 1) :
                  ~(domain[i] = "." /\ domain[i + 1] = ".")

\* The value EmailStr hands to the handler: the domain in lower case.
NormalizeEmail(e) ==
    LET at == CHOOSE i \in 1..Len(e) : e[i] = "@"
    IN  [i \in 1..Len(e) |-> IF i > at THEN Lower(e[i]) ELSE e[i]]

\* Mutant: email declared as a plain str, nothing is rejected.
Lead_unvalidated(body) ==
    [valid |-> TRUE, name |-> body.name, email |-> body.email]

\* class Lead(BaseModel): name: str, email: EmailStr.  The framework
\* validates the body before the handler is called.
Lead(body) ==
    IF IsEmail(body.email)
    THEN [valid |-> TRUE, name |-> body.name,
          email |-> NormalizeEmail(body.email)]
    ELSE [valid |-> FALSE]

LeadBodies ==
    { [name |-> <<"N">>, email |-> <<"a", "@", "b", ".", "c">>],
      [name |-> <<>>, email |-> <<"A", "@", "B", ".", "c">>],
      [name |-> <<"N">>, email |-> <<"n", "o", "t">>],
      [name |-> <<"N">>, email |-> <<"a", "@", "b">>] }

\* f"Nome: {lead.name}, Email: {lead.email}\n"
LeadLine(lead) ==
    <<"Nome: ">> \o lead.name \o <<", Email: ">> \o lead.email \o <<"\n">>

\* Mutant: the file is opened with mode "w".
TruncateWrite(file, text) == [exists |-> TRUE, content |-> text]

\* open("leads.txt", "a") followed by f.write(text): the file is created
\* when absent and the text goes after what is there.
AppendWrite(file, text) ==
    [exists |-> TRUE, content |-> file.content \o text]

\* How much of the line is in the file when the write raises: nothing,
\* its first token, or all but the newline.
PartialWrites(line) == {0, 1, Len(line) - 1}

\* Outcomes of the with-block: it completes, open() raises, or the write
\* raises after k tokens of the line reached the file.
IoOutcomes(line) ==
    { [io |-> "ok"], [io |-> "open_fails"] }
    \cup { [io |-> "write_fails", k |-> k] : k \in PartialWrites(line) }

capturar_lead(body) ==
    /\ LoopFree
    /\ LET lead == Lead(body) IN
       IF ~lead.valid
       THEN /\ last' = [route |-> "/leads", done |-> TRUE, request |-> body,
                        status |-> 422]
            /\ UNCHANGED <<leads_txt, ok_lines, leads_handled>>
       ELSE /\ leads_handled < MaxLeads
            /\ leads_handled' = leads_handled + 1
            /\ \E out \in IoOutcomes(LeadLine(lead)) :
                 CASE out.io = "ok" ->
                        /\ leads_txt' = AppendWrite(leads_txt, LeadLine(lead))
                        /\ ok_lines' = ok_lines \o LeadLine(lead)
                        /\ last' = [route |-> "/leads", done |-> TRUE,
                                    request |-> body, lead |-> lead,
                                    status |-> 200,
                                    body |-> [status |-> "success",
                                              message |-> "Lead recebido com sucesso!"]]
                   [] out.io = "open_fails" ->
                        /\ UNCHANGED <<leads_txt, ok_lines>>
                        /\ last' = [route |-> "/leads", done |-> TRUE,
                                    request |-> body, lead |-> lead,
                                    status |-> 500,
                                    body |-> [detail |-> "Falha ao salvar o lead."]]
                   [] out.io = "write_fails" ->
                        /\ leads_txt' = AppendWrite(leads_txt,
                                            SubSeq(LeadLine(lead), 1, out.k))
                        /\ ok_lines' = IF out.k = 0 THEN ok_lines ELSE <<>>
                        /\ last' = [route |-> "/leads", done |-> TRUE,
                                    request |-> body, lead |-> lead,
                                    status |-> 500,
                                    body |-> [detail |-> "Falha ao salvar o lead."]]
    /\ UNCHANGED <<env, phase, globals, writes, history>>

----------------------------------------------------------------------------
(* POST /chat *)

Messages == { <<>>, <<"Q">>, <<" ">> }

Replies == { <<"o", "k">>, <<" ", "o", " ", "k", "\n">>, <<"\n", " ">> }

\* What chat.send_message(prompt) followed by resposta.text can do.
DownstreamOutcomes ==
    { [kind |-> "reply", text |-> r] : r \in Replies }
    \cup { [kind |-> "raise", at |-> "send_message", exc |-> "ServiceUnavailable"],
           [kind |-> "raise", at |-> "send_message", exc |-> "ResourceExhausted"],
           [kind |-> "raise", at |-> "text", exc |-> "ValueError"] }

\* Mutant: the request is refused only when both globals are missing.
ServiceUnavailable_both(session, base) == ~Truthy(session) /\ ~Truthy(base)

\* Mutant: the globals are compared with None instead of tested for truth.
ServiceUnavailable_is_none(session, base) == session = None \/ base = None

\* line 124: if not chat_session or not base_conhecimento
ServiceUnavailable(session, base) == ~Truthy(session) \/ ~Truthy(base)

\* Mutant: "if user_message is None", never true of a str.
MessageIsNone(user_message) == FALSE

\* line 128: if not user_message
MessageEmpty(user_message) == user_message = <<>>

\* str.format of an Optional[str] argument
Formatted(v) == IF v = None THEN <<"None">> ELSE v.chars

\* responder_com_gemini, line 54: the prompt handed to chat.send_message
Prompt(base, pergunta_usuario) ==
    PROMPT_TEMPLATE(Formatted(base), pergunta_usuario)

\* responder_com_gemini, line 56: resposta.text.strip()
ReplyText(resposta) == strip(resposta.text)

\* Mutant: the exception text is relayed to the caller.
ErrorResponse_relayed(exc) == [status |-> 500, body |-> [detail |-> exc]]

\* lines 134-136: except Exception -> HTTPException(500, fixed detail)
ErrorResponse(exc) ==
    [status |-> 500,
     body |-> [detail |-> "Ocorreu um erro ao processar sua mensagem."]]

\* The handler up to the synchronous chat.send_message(prompt): the two
\* early returns, then the call, inside which the handler (and with it
\* the event loop it runs on) waits for the remote service.
chat(user_message) ==
    /\ LoopFree
    /\ LET req == [route |-> "/chat", request |-> user_message,
                   before |-> Len(history)]
       IN
       IF ServiceUnavailable(chat_session, base_conhecimento)
       THEN /\ last' = req @@ [done |-> TRUE, status |-> 503,
                    body |-> [detail |->
                      "Desculpe, o chatbot nao esta disponivel no momento."]]
            /\ UNCHANGED history
       ELSE IF MessageEmpty(user_message)
       THEN /\ last' = req @@ [done |-> TRUE, status |-> 400,
                    body |-> [detail |-> "A mensagem nao pode ser vazia."]]
            /\ UNCHANGED history
       ELSE IF chat_session = None
       THEN \* None.send_message: AttributeError, caught at line 134
            /\ last' = req @@ [done |-> TRUE,
                               outcome |-> [kind |-> "raise",
                                            at |-> "send_message",
                                            exc |-> "AttributeError"]]
                           @@ ErrorResponse("AttributeError")
            /\ UNCHANGED history
       ELSE /\ Len(history) < MaxChats
            /\ history' = Append(history, Prompt(base_conhecimento, user_message))
            /\ last' = req @@ [done |-> FALSE]
    /\ UNCHANGED <<env, phase, globals, writes, leads_txt, ok_lines,
                   leads_handled>>

\* The exchange as completed by the rest of the handler, lines 132-136.
Completed(out) ==
    LET req == [route |-> "/chat", request |-> last.request,
                before |-> last.before, done |-> TRUE, outcome |-> out]
    IN  IF out.kind = "raise"
        THEN req @@ ErrorResponse(out.exc)
        ELSE req @@ [status |-> 200, body |-> [response |-> ReplyText(out)]]

\* Mutant: the handler drops the session when the remote call fails.
send_message_returns_reset(out) ==
    /\ phase = "serving"
    /\ ~last.done
    /\ last' = Completed(out)
    /\ chat_session' = IF out.kind = "raise" THEN None ELSE chat_session
    /\ UNCHANGED <<env, phase, base_conhecimento, writes, history, leads_txt,
                   ok_lines, leads_handled>>

\* The rest of the handler, from the moment send_message returns or raises.
send_message_returns(out) ==
    /\ phase = "serving"
    /\ ~last.done
    /\ last' = Completed(out)
    /\ UNCHANGED <<env, phase, globals, writes, history, leads_txt, ok_lines,
                   leads_handled>>

----------------------------------------------------------------------------

Next ==
    \/ startup_event
    \/ read_root
    \/ \E body \in LeadBodies : capturar_lead(body)
    \/ \E user_message \in Messages : chat(user_message)
    \/ \E out \in DownstreamOutcomes : send_message_returns(out)

Spec == Init /\ [][Next]_vars

----------------------------------------------------------------------------
(* Vocabulary of the properties *)

Serving == phase = "serving"

ChatDone == last.route = "/chat" /\ last.done

\* The downstream call of the last chat exchange raised.
ChatRaised ==
    /\ ChatDone
    /\ "outcome" \in DOMAIN last
    /\ last.outcome.kind = "raise"

\* The last chat exchange went through send_message exactly once / not at all.
CalledOnce == Len(history) = last.before + 1
NotCalled == Len(history) = last.before

BlobNonEmpty == base_conhecimento # None /\ base_conhecimento.chars # <<>>

\* t is r without its leading and trailing whitespace.
IsTrimOf(t, r) ==
    \E i, j \in 0..Len(r) :
        /\ i + j <= Len(r)
        /\ t = SubSeq(r, i + 1, Len(r) - j)
        /\ \A n \in 1..i : r[n] \in Whitespace
        /\ \A n \in (Len(r) - j + 1)..Len(r) : r[n] \in Whitespace
        /\ (t # <<>> => t[1] \notin Whitespace /\ t[Len(t)] \notin Whitespace)

IsSuffix(t, r) ==
    /\ Len(t) <= Len(r)
    /\ t = SubSeq(r, Len(r) - Len(t) + 1, Len(r))

----------------------------------------------------------------------------
(* C1: once startup has completed with the credential missing and/or the *)
(* knowledge file missing, one of the two globals is None, every POST    *)
(* /chat (the empty message included) is answered 503 and nothing is     *)
(* ever submitted through the session, while GET / can be served and     *)
(* answers 200 with the fixed status payload.                            *)
C1_DegradedRefusesChat ==
    (Serving /\ (~Truthy(GEMINI_API_KEY) \/ dados_txt.kind = "missing")) =>
        /\ chat_session = None \/ base_conhecimento = None
        /\ history = <<>>
        /\ last.done
        /\ last.route = "/chat" => last.status = 503 /\ NotCalled
        /\ last.route = "/" =>
               /\ last.status = 200
               /\ last.body = [status |-> "API do Chatbot esta funcionando!"]
        /\ ENABLED read_root

C1_Witness ==
    /\ Serving
    /\ GEMINI_API_KEY = None
    /\ dados_txt.kind = "text"
    /\ last.route = "/chat"
    /\ last.request = <<>>
    /\ last.status = 503

(* C2 as stated: with the session and the knowledge blob both present    *)
(* (not None), the empty message is answered 400 and send_message is not *)
(* invoked for that request.                                             *)
C2_Original ==
    (Serving /\ last.route = "/chat" /\ last.request = <<>>
       /\ chat_session # None /\ base_conhecimento # None) =>
        /\ last.done
        /\ last.status = 400
        /\ NotCalled

(* C2 amended: with the session present and the knowledge blob present   *)
(* and non-empty, the empty message is answered 400 and send_message is  *)
(* not invoked for that request.                                         *)
C2_EmptyMessageRejected ==
    (Serving /\ last.route = "/chat" /\ last.request = <<>>
       /\ chat_session # None /\ BlobNonEmpty) =>
        /\ last.done
        /\ last.status = 400
        /\ NotCalled

C2_Witness ==
    /\ Serving
    /\ chat_session # None
    /\ BlobNonEmpty
    /\ last.route = "/chat"
    /\ last.request = <<>>
    /\ last.status = 400

(* C3: when the service is available, a completed POST /chat with a      *)
(* non-empty message whose downstream call did not raise went through    *)
(* send_message exactly once and is answered 200 with a body of exactly  *)
(* the field response, holding the reply text without its leading and    *)
(* trailing whitespace.                                                  *)
C3_ReplyTrimmed ==
    (Serving /\ ChatDone /\ last.request # <<>>
       /\ chat_session # None /\ BlobNonEmpty /\ ~ChatRaised) =>
        /\ last.status = 200
        /\ DOMAIN last.body = {"response"}
        /\ IsTrimOf(last.body.response, last.outcome.text)
        /\ CalledOnce

C3_Witness ==
    /\ ChatDone
    /\ last.status = 200
    /\ last.outcome.text = <<" ", "o", " ", "k", "\n">>
    /\ last.body.response = <<"o", " ", "k">>
    /\ Len(history) = 2

(* C4: a POST /chat whose downstream call (or the reading of its reply)  *)
(* raises is answered 500 with the same fixed detail whatever the        *)
(* exception; send_message was invoked once and is not invoked again,    *)
(* the two globals are left as they were and the loop is free again.     *)
C4_DownstreamErrorIs500 ==
    [][ (last'.route = "/chat" /\ last'.done /\ "outcome" \in DOMAIN last'
           /\ last'.outcome.kind = "raise") =>
          /\ last'.status = 500
          /\ last'.body = [detail |-> "Ocorreu um erro ao processar sua mensagem."]
          /\ history' = history
          /\ Len(history') = last'.before + 1
          /\ chat_session' = chat_session
          /\ base_conhecimento' = base_conhecimento
          /\ LoopFree' ]_vars

C4_Witness ==
    /\ ChatRaised
    /\ last.outcome.at = "text"
    /\ last.status = 500
    /\ Len(history) = 2

(* C5: a POST /leads answered 200 leaves the lead file existing, with    *)
(* its earlier content followed by exactly the one line                  *)
(* "Nome: <name>, Email: <email>" of the validated lead; the lines of    *)
(* consecutive successful submissions are, in submission order, a suffix *)
(* of the file.                                                          *)
C5_LeadAppended ==
    /\ [][ (last'.route = "/leads" /\ last'.status = 200) =>
             /\ leads_txt'.exists
             /\ leads_txt'.content =
                    leads_txt.content
                    \o <<"Nome: ">> \o last'.lead.name
                    \o <<", Email: ">> \o last'.lead.email \o <<"\n">>
             /\ last'.lead.name = last'.request.name ]_vars
    /\ [](IsSuffix(ok_lines, leads_txt.content))

C5_Witness ==
    /\ last.route = "/leads"
    /\ last.status = 200
    /\ leads_txt.content =
           <<"x", "\n",
             "Nome: ", "N", ", Email: ", "a", "@", "b", ".", "c", "\n",
             "Nome: ", ", Email: ", "A", "@", "b", ".", "c", "\n">>
    /\ IsSuffix(ok_lines, leads_txt.content)
    /\ Len(ok_lines) = 17

(* C6: a POST /leads whose email is not an email address is answered 422 *)
(* without the handler body running, and the lead file is as before.     *)
C6_BadEmailRejected ==
    /\ [][ (last'.route = "/leads" /\ ~IsEmail(last'.request.email)) =>
             /\ last'.status = 422
             /\ leads_txt' = leads_txt
             /\ leads_handled' = leads_handled ]_vars
    /\ []((last.route = "/leads" /\ ~IsEmail(last.request.email)) =>
             last.status = 422 /\ "lead" \notin DOMAIN last)

C6_Witness ==
    /\ last.route = "/leads"
    /\ last.request.email = <<"n", "o", "t">>
    /\ last.status = 422
    /\ leads_txt.content # <<"x", "\n">>
    /\ leads_txt.exists

(* C7: no request is handled before the startup event; the startup event *)
(* assigns each of the two globals exactly once; afterwards no step of   *)
(* any handler, whatever its outcome, changes either of them.            *)
C7_GlobalsWrittenOnce ==
    /\ [](phase = "init" => last = NoExchange /\ history = <<>>)
    /\ [](Serving => writes.base_conhecimento = 1 /\ writes.chat_session = 1)
    /\ [][ phase # "init" =>
             /\ chat_session' = chat_session
             /\ base_conhecimento' = base_conhecimento
             /\ writes' = writes ]_vars

C7_Witness ==
    /\ ChatRaised
    /\ last.status = 500
    /\ chat_session = ChatSession
    /\ base_conhecimento = Str(<<"K">>)

(* C8 as stated: whatever keeps the knowledge file from being opened or  *)
(* read (missing, permission denied, a directory, undecodable bytes),    *)
(* startup completes and the process serves with the blob absent.        *)
C8_LoaderFailsSoftly ==
    (phase # "init" /\ dados_txt.kind # "text") =>
        /\ Serving
        /\ base_conhecimento = None

(* C9 as stated: while a POST /chat is inside its downstream call, the   *)
(* process can still start and complete a GET /, a POST /leads and       *)
(* another POST /chat.                                                   *)
C9_OthersServedWhileBlocked ==
    (Serving /\ ~last.done) =>
        /\ ENABLED read_root
        /\ ENABLED (\E body \in LeadBodies : capturar_lead(body))
        /\ ENABLED (\E user_message \in Messages : chat(user_message))

(* C10 as stated: POST /chat is refused with 503 exactly when the        *)
(* session is absent or the knowledge file was missing at startup.       *)
C10_Original ==
    (Serving /\ last.route = "/chat") =>
        ((last.done /\ last.status = 503)
            <=> (chat_session = None \/ dados_txt.kind = "missing"))

(* C10 amended: POST /chat is refused with 503 exactly when the session  *)
(* is absent or the knowledge blob is absent or empty; the blob is None  *)
(* exactly when the file was missing at startup; with a session and a    *)
(* non-empty knowledge file a non-empty message is submitted downstream. *)
C10_RefusedIffFalsy ==
    /\ (Serving /\ last.route = "/chat") =>
         /\ (last.done /\ last.status = 503)
              <=> (chat_session = None \/ ~BlobNonEmpty)
         /\ (chat_session # None /\ BlobNonEmpty /\ last.request # <<>>) =>
              /\ CalledOnce
              /\ history[Len(history)] = Prompt(base_conhecimento, last.request)
    /\ Serving => (base_conhecimento = None <=> dados_txt.kind = "missing")
    /\ Serving => (chat_session = None <=> ~(Truthy(GEMINI_API_KEY) /\ genai_ok))

C10_Witness ==
    /\ Serving
    /\ chat_session # None
    /\ base_conhecimento = Str(<<>>)
    /\ last.route = "/chat"
    /\ last.request = <<"Q">>
    /\ last.status = 503

====
